---- MODULE Spec2Model ----
(***************************************************************************)
(* RyDrive (src/rydrive.py): a single-threaded HTTP file server that maps  *)
(* client-supplied relative paths onto the directory DATA_DIR.             *)
(*                                                                         *)
(* Byte strings and text strings are sequences of tokens.  A token is a    *)
(* run of characters that is never split by the code paths modelled here   *)
(* ("rydrive_data", "/", ".", "\r\n", ...), so that prefix, substring,     *)
(* split and find on token sequences agree with the same operations on     *)
(* the characters.  A file-system path is a sequence of segments and a     *)
(* segment is a token sequence without "/".                                *)
(*                                                                         *)
(* Environment: the host file system has no symbolic links (no request     *)
(* can create one), so Path.resolve() is the lexical normalisation that    *)
(* os.path.realpath performs when no component is a link.                  *)
(***************************************************************************)
EXTENDS Integers, Sequences, FiniteSets, TLC

VARIABLES fs, req, resp, acted, gone, sent, resolved

vars == <<fs, req, resp, acted, gone, sent, resolved>>

\* ------------------------------------------------------------------ bounds
MaxSegs == 3
MaxLead == 1
MaxCut == 6
MaxPayload == 2

\* ------------------------------------------------------- string primitives
SL == "/"
DOT == "."
DOTDOT == <<DOT, DOT>>

StartsWith(s, p) == Len(p) <= Len(s) /\ SubSeq(s, 1, Len(p)) = p

EndsWith(s, p) == Len(p) <= Len(s) /\ SubSeq(s, Len(s) - Len(p) + 1, Len(s)) = p

\* str.find / bytes.find, 1-based; 0 when sub does not occur at or after from.
Find(s, sub, from) ==
  LET hits == {i \in from..(Len(s) - Len(sub) + 1) : SubSeq(s, i, i + Len(sub) - 1) = sub}
  IN IF hits = {} THEN 0 ELSE CHOOSE i \in hits : \A j \in hits : i <= j

\* the `in` operator on str / bytes
Contains(s, sub) == Find(s, sub, 1) # 0

\* str.split(sep) / bytes.split(sep): leftmost non-overlapping occurrences.
RECURSIVE Split(_, _)
Split(s, sep) ==
  LET i == Find(s, sep, 1)
  IN IF i = 0 THEN <<s>>
     ELSE <<SubSeq(s, 1, i - 1)>> \o Split(SubSeq(s, i + Len(sep), Len(s)), sep)

\* str.lstrip("/")
RECURSIVE LStrip(_)
LStrip(s) == IF s # <<>> /\ Head(s) = SL THEN LStrip(Tail(s)) ELSE s

RECURSIVE JoinWith(_, _)
JoinWith(segs, sep) ==
  IF segs = <<>> THEN <<>>
  ELSE IF Len(segs) = 1 THEN segs[1]
  ELSE segs[1] \o <<sep>> \o JoinWith(Tail(segs), sep)

\* ------------------------------------------------------------------ pathlib
\* Configuration (src/rydrive.py:17) and the process's working directory.
DATA_DIR == <<"rydrive_data">>
CWD == <<<<"srv">>>>

\* pathlib's parsing of one string: split on "/", drop empty and "." segments,
\* remember whether the string is anchored at "/".
PathOf(s) ==
  [anchored |-> s # <<>> /\ Head(s) = SL,
   parts |-> SelectSeq(Split(s, <<SL>>), LAMBDA g : g # <<>> /\ g # <<DOT>>)]

\* Path.__truediv__: an anchored right operand replaces the left one.
JoinPath(p, q) ==
  IF q.anchored THEN q ELSE [anchored |-> p.anchored, parts |-> p.parts \o q.parts]

\* Lexical ".." elimination of os.path.realpath on an absolute segment list.
RECURSIVE Normalize(_, _)
Normalize(done, rest) ==
  IF rest = <<>> THEN done
  ELSE IF Head(rest) = DOTDOT
       THEN Normalize(IF done = <<>> THEN <<>> ELSE SubSeq(done, 1, Len(done) - 1), Tail(rest))
       ELSE Normalize(Append(done, Head(rest)), Tail(rest))

\* Path.resolve(): make absolute against the working directory, normalise.
Resolve(p) ==
  [anchored |-> TRUE,
   parts |-> Normalize(<<>>, IF p.anchored THEN p.parts ELSE CWD \o p.parts)]

\* str(path)
Str(p) ==
  IF p.anchored THEN <<SL>> \o JoinWith(p.parts, SL)
  ELSE IF p.parts = <<>> THEN <<DOT>> ELSE JoinWith(p.parts, SL)

\* The prefix test of _get_full_path, on the two path strings.
PrefixTest(full, root) == StartsWith(Str(full), Str(root))

\* (Path(DATA_DIR) / relative_path.lstrip("/")).resolve()
FullPathOf(relative_path) ==
  Resolve(JoinPath(PathOf(DATA_DIR), PathOf(LStrip(relative_path))))

\* RyDriveHandler._get_full_path
GetFullPath(relative_path) ==
  LET full_path == FullPathOf(relative_path)
      data_dir_resolved == Resolve(PathOf(DATA_DIR))
  IN IF ~PrefixTest(full_path, data_dir_resolved)
     THEN [err |-> "ValueError", path |-> <<>>]
     ELSE [err |-> "ok", path |-> full_path.parts]

\* The storage root as a segment list, and confinement by whole segments.
ROOT == Resolve(PathOf(DATA_DIR)).parts

UnderRoot(parts) == StartsWith(parts, ROOT)

\* -------------------------------------------------------------- file system
\* fs maps each existing absolute path (segment list; <<>> is "/") to its node.
DirNode == [kind |-> "dir", data |-> <<>>, mode |-> "rw"]
FileNode(data) == [kind |-> "file", data |-> data, mode |-> "rw"]

Exists(f, p) == p \in DOMAIN f
IsDir(f, p) == p \in DOMAIN f /\ f[p].kind = "dir"
IsFile(f, p) == p \in DOMAIN f /\ f[p].kind = "file"
Parent(p) == IF p = <<>> THEN <<>> ELSE SubSeq(p, 1, Len(p) - 1)
Leaf(p) == p[Len(p)]
Children(f, d) == {q \in DOMAIN f : q # <<>> /\ Parent(q) = d}

Put(f, p, node) == [q \in DOMAIN f \cup {p} |-> IF q = p THEN node ELSE f[q]]
Remove(f, gonePaths) == [q \in DOMAIN f \ gonePaths |-> f[q]]

\* Kernel path walk of an absolute segment list that may still contain "..":
\* every component walked through must be an existing directory.  Returns the
\* location the last component names (which itself may not exist).
RECURSIVE Walk(_, _, _)
Walk(f, cur, rest) ==
  IF rest = <<>> THEN [err |-> "ok", path |-> cur]
  ELSE IF ~Exists(f, cur) THEN [err |-> "FileNotFoundError", path |-> cur]
  ELSE IF ~IsDir(f, cur) THEN [err |-> "NotADirectoryError", path |-> cur]
  ELSE Walk(f, IF Head(rest) = DOTDOT THEN Parent(cur) ELSE Append(cur, Head(rest)),
            Tail(rest))

Lookup(f, raw) == Walk(f, <<>>, raw)

\* Path.is_dir(): any OS error reads as False.
PathIsDir(f, raw) == LET at == Lookup(f, raw) IN at.err = "ok" /\ IsDir(f, at.path)

\* os.mkdir(raw)
OsMkdir(f, raw) ==
  LET at == Lookup(f, raw)
  IN IF at.err # "ok" THEN [err |-> at.err, fs |-> f]
     ELSE IF Exists(f, at.path) THEN [err |-> "FileExistsError", fs |-> f]
     ELSE [err |-> "ok", fs |-> Put(f, at.path, DirNode)]

\* Path.mkdir(parents=True, exist_ok=exist_ok).  The parent is the lexical
\* parent (pathlib keeps ".." segments); a parent created before a later
\* failure stays created.
RECURSIVE PathMkdir(_, _, _)
PathMkdir(f, raw, exist_ok) ==
  LET first == OsMkdir(f, raw)
  IN IF first.err = "ok" THEN first
     ELSE IF first.err = "FileNotFoundError"
     THEN IF raw = <<>> THEN first
          ELSE LET up == PathMkdir(f, Parent(raw), TRUE)
               IN IF up.err # "ok" THEN up
                  ELSE LET again == OsMkdir(up.fs, raw)
                       IN IF again.err = "ok" \/ again.err = "FileNotFoundError" THEN again
                          ELSE IF ~exist_ok \/ ~PathIsDir(up.fs, raw) THEN again
                          ELSE [err |-> "ok", fs |-> up.fs]
     ELSE IF ~exist_ok \/ ~PathIsDir(f, raw) THEN first
     ELSE [err |-> "ok", fs |-> f]

\* Faulty variant of MkdirExistOk: mkdir called without exist_ok.
MkdirExistOkDropped == FALSE

\* The exist_ok flag _create_folder and _upload_file pass to Path.mkdir.
MkdirExistOk == TRUE

\* open(raw, 'wb') followed by f.write(data)
OpenWrite(f, raw, data) ==
  LET at == Lookup(f, raw)
  IN IF at.err # "ok" THEN [err |-> at.err, fs |-> f]
     ELSE IF IsDir(f, at.path) THEN [err |-> "IsADirectoryError", fs |-> f]
     ELSE IF Exists(f, at.path) /\ f[at.path].mode # "rw"
     THEN [err |-> "PermissionError", fs |-> f]
     ELSE IF ~IsDir(f, Parent(at.path)) THEN [err |-> "FileNotFoundError", fs |-> f]
     ELSE [err |-> "ok", fs |-> Put(f, at.path, FileNode(data))]

\* open(path, 'rb') and reading it to the end
OpenRead(f, p) ==
  IF ~Exists(f, p) THEN [err |-> "FileNotFoundError", data |-> <<>>]
  ELSE IF IsDir(f, p) THEN [err |-> "IsADirectoryError", data |-> <<>>]
  ELSE IF f[p].mode # "rw" THEN [err |-> "PermissionError", data |-> <<>>]
  ELSE [err |-> "ok", data |-> f[p].data]

\* Faulty variant of RmTree: only the directory's own entry is removed.
RmTreeShallow(f, p) == Remove(f, {p})

\* shutil.rmtree(path): the directory and everything beneath it.
RmTree(f, p) == Remove(f, {q \in DOMAIN f : StartsWith(q, p)})

\* Faulty variant of Unlink: unlink(missing_ok=True).
UnlinkMissingOk(f, p) == [err |-> "ok", fs |-> Remove(f, {p})]

\* Path.unlink() on a path that is not a directory
Unlink(f, p) ==
  IF ~Exists(f, p)
  THEN [err |-> IF \E i \in 1..(Len(p) - 1) : IsFile(f, SubSeq(p, 1, i))
                THEN "NotADirectoryError" ELSE "FileNotFoundError",
        fs |-> f]
  ELSE [err |-> "ok", fs |-> Remove(f, {p})]

\* _delete_item's removal step: rmtree for a directory, unlink otherwise.
DeleteAt(f, p) ==
  IF IsDir(f, p) THEN [err |-> "ok", fs |-> RmTree(f, p)] ELSE Unlink(f, p)

\* ------------------------------------------------------------ HTTP requests
CRLF == "\r\n"
Q == "\""
CRLFCRLF == <<CRLF, CRLF>>
NAME_PATH == <<"name=", Q, "path", Q>>
NAME_FILE == <<"name=", Q, "file", Q>>
FILENAME_EQ == <<"file", "name=", Q>>
BOUNDARY == <<"XyZ">>

\* urllib.parse.unquote on the tokens used here: %2F -> "/", %2E -> ".".
Unquote(s) ==
  [i \in 1..Len(s) |-> IF s[i] = "%2F" THEN SL ELSE IF s[i] = "%2E" THEN DOT ELSE s[i]]

\* bytes.decode(): the byte 0xFF is not valid UTF-8.
DecodeFails(bytes) == \E i \in 1..Len(bytes) : bytes[i] = "0xFF"

\* What a multipart client sends for one form: the parts in the client's
\* order, each part framed as "--boundary CRLF headers CRLF CRLF value CRLF",
\* closed by "--boundary--CRLF"; the last `cut` tokens are lost when the
\* connection ends before Content-Length bytes arrived.
PathPart(path) ==
  <<CRLF, "Content-Disposition", ": form-data; ">> \o NAME_PATH \o CRLFCRLF \o path \o <<CRLF>>

FilePart(filename, payload) ==
  <<CRLF, "Content-Disposition", ": form-data; ">> \o NAME_FILE \o <<"; ">>
    \o FILENAME_EQ \o filename \o <<Q, CRLF, "Content-Type: application/octet-stream">>
    \o CRLFCRLF \o payload \o <<CRLF>>

FormParts(form) ==
  IF form.order = "file-path" THEN <<FilePart(form.filename, form.payload), PathPart(form.path)>>
  ELSE IF form.order = "path-file" THEN <<PathPart(form.path), FilePart(form.filename, form.payload)>>
  ELSE IF form.order = "file" THEN <<FilePart(form.filename, form.payload)>>
  ELSE <<PathPart(form.path)>>

RECURSIVE Framed(_, _)
Framed(parts, delim) ==
  IF parts = <<>> THEN delim \o <<"--", CRLF>>
  ELSE delim \o Head(parts) \o Framed(Tail(parts), delim)

BodyOf(form) ==
  LET whole == Framed(FormParts(form), <<"--">> \o BOUNDARY)
  IN SubSeq(whole, 1, Len(whole) - form.cut)

\* ------------------------------------------------------------- responses
\* One element of resp is one status line put on the wire with what follows.
Reply(status, ctype, body) == [status |-> status, ctype |-> ctype, body |-> body]
NoBody == [k |-> "none"]
JsonSuccess == Reply(200, "application/json", [k |-> "success"])
JsonError(e) == Reply(500, "application/json", [k |-> "error", msg |-> e])
JsonItems(items) == Reply(200, "application/json", [k |-> "items", items |-> items])
NotFound404(text) == Reply(404, "text/html", [k |-> "text", msg |-> text])
Bare400 == Reply(400, "text/html", NoBody)

NoPath == [k |-> "none"]
At(p) == [k |-> "path", path |-> p]

\* What a handler leaves behind: the tree, the responses written, and the
\* absolute location its file-system action was performed on.
Outcome(f, r, a) == [fs |-> f, resp |-> r, acted |-> a]

\* An exception that no handler catches: socketserver closes the connection
\* and nothing is written.
Uncaught(f) == Outcome(f, <<>>, NoPath)

\* ------------------------------------------------------------- _list_files
\* Order of the names that occur, as Python orders the strings.
TokenOrder == <<".", "2", "a", "docs", "etc", "evil", "file", "locked", "passwd",
                "path", "rydrive_data", "secret", "srv", "x">>
Rank(t) == CHOOSE i \in 1..Len(TokenOrder) : TokenOrder[i] = t

RECURSIVE StrLess(_, _)
StrLess(a, b) ==
  IF b = <<>> THEN FALSE
  ELSE IF a = <<>> THEN TRUE
  ELSE IF Head(a) = Head(b) THEN StrLess(Tail(a), Tail(b))
  ELSE Rank(Head(a)) < Rank(Head(b))

\* sorted(full_path.iterdir())
RECURSIVE SortedPaths(_)
SortedPaths(S) ==
  IF S = {} THEN <<>>
  ELSE LET m == CHOOSE x \in S : \A y \in S \ {x} : StrLess(Leaf(x), Leaf(y))
       IN <<m>> \o SortedPaths(S \ {m})

\* PurePath.relative_to(other): fails unless the anchors agree and other's
\* parts are a prefix of the path's.
RelativeTo(p, other) ==
  IF p.anchored # other.anchored \/ ~StartsWith(p.parts, other.parts)
  THEN [err |-> "ValueError", path |-> p]
  ELSE [err |-> "ok",
        path |-> [anchored |-> FALSE,
                  parts |-> SubSeq(p.parts, Len(other.parts) + 1, Len(p.parts))]]

\* The base _list_files makes item paths relative to.
ListBase == PathOf(DATA_DIR)

ItemOf(f, item) ==
  [name |-> Leaf(item),
   type |-> IF IsDir(f, item) THEN "folder" ELSE "file",
   size |-> IF IsFile(f, item) THEN Len(f[item].data) ELSE 0,
   path |-> Str(RelativeTo([anchored |-> TRUE, parts |-> item], ListBase).path)]

\* parse_qs(query).get("path", [""])[0]
QueryPath(query) == IF query.has_path THEN Unquote(query.path) ELSE <<>>

ListFiles(f, query) ==
  LET full == GetFullPath(QueryPath(query))
  IN IF full.err # "ok" THEN Outcome(f, <<JsonError(full.err)>>, NoPath)
     ELSE IF ~IsDir(f, full.path) THEN Outcome(f, <<JsonItems(<<>>)>>, At(full.path))
     ELSE LET kids == SortedPaths(Children(f, full.path))
          IN IF \E i \in 1..Len(kids) :
                  RelativeTo([anchored |-> TRUE, parts |-> kids[i]], ListBase).err # "ok"
             THEN Outcome(f, <<JsonError("ValueError")>>, At(full.path))
             ELSE Outcome(f, <<JsonItems([i \in 1..Len(kids) |-> ItemOf(f, kids[i])])>>,
                          At(full.path))

\* ------------------------------------------- _download_file and _view_file
\* send_response(200) and the headers are written by end_headers() before the
\* file is opened; a failure of open() is answered by _set_headers(500), a
\* second status line on the same connection.
SendFile(f, rel_path, attachment) ==
  LET full == GetFullPath(rel_path)
  IN IF full.err # "ok"
     THEN Outcome(f, <<Reply(500, "text/html", [k |-> "text", msg |-> full.err])>>, NoPath)
     ELSE IF ~IsFile(f, full.path)
     THEN Outcome(f, <<NotFound404("File not found")>>, At(full.path))
     ELSE LET rd == OpenRead(f, full.path)
              head == Reply(200, "guessed",
                            [k |-> "bytes", attachment |-> attachment,
                             length |-> Len(f[full.path].data), data |-> rd.data])
          IN IF rd.err = "ok" THEN Outcome(f, <<head>>, At(full.path))
             ELSE Outcome(f, <<head, Reply(500, "text/html", [k |-> "text", msg |-> rd.err])>>,
                          At(full.path))

DownloadFile(f, rel_path) == SendFile(f, rel_path, TRUE)
ViewFile(f, rel_path) == SendFile(f, rel_path, FALSE)

\* ------------------------------------------------------------ _upload_file
\* The loop body of _upload_file for one part.  acc carries upload_path,
\* file_data, filename (has_file is "file_data is not None") and the first
\* exception raised.  A part is taken as the path field when it contains the
\* bytes name="path" anywhere, else as the file field when it contains
\* name="file" anywhere.  Every file part sent here has its header
\* separator and a filename attribute, so both find() calls succeed and the
\* offsets +4 and +10 are the lengths of the tokens found.
ParsePart(acc, part) ==
  IF acc.err # "ok" \/ ~Contains(part, <<"Content-Disposition">>) THEN acc
  ELSE IF Contains(part, NAME_PATH)
  THEN LET pieces == Split(part, CRLFCRLF)
       IN IF Len(pieces) < 2 THEN [acc EXCEPT !.err = "IndexError"]
          ELSE LET value == Split(pieces[2], <<CRLF>>)[1]
               IN IF DecodeFails(value) THEN [acc EXCEPT !.err = "UnicodeDecodeError"]
                  ELSE [acc EXCEPT !.upload_path = value]
  ELSE IF Contains(part, NAME_FILE)
  THEN LET header_end == Find(part, CRLFCRLF, 1)
           raw_data == SubSeq(part, header_end + Len(CRLFCRLF), Len(part))
           file_data == IF EndsWith(raw_data, <<CRLF>>)
                        THEN SubSeq(raw_data, 1, Len(raw_data) - 1) ELSE raw_data
           header == SubSeq(part, 1, header_end - 1)
           filename_start == Find(header, FILENAME_EQ, 1) + Len(FILENAME_EQ)
           filename_end == Find(header, <<Q>>, filename_start)
       IN IF DecodeFails(header) THEN [acc EXCEPT !.err = "UnicodeDecodeError"]
          ELSE [acc EXCEPT !.has_file = TRUE, !.file_data = file_data,
                           !.filename = SubSeq(header, filename_start, filename_end - 1)]
  ELSE acc

RECURSIVE ParseParts(_, _)
ParseParts(acc, parts) ==
  IF parts = <<>> THEN acc ELSE ParseParts(ParsePart(acc, Head(parts)), Tail(parts))

\* _upload_file up to the `if file_data and filename` test (lines 542-570).
ParseUpload(ctype, body) ==
  LET none == [err |-> "ok", upload_path |-> <<>>, has_file |-> FALSE,
               file_data |-> <<>>, filename |-> <<>>]
  IN IF ~ctype.present THEN [none EXCEPT !.err = "TypeError"]
     ELSE IF ~Contains(ctype.value, <<"multipart/form-data">>)
     THEN [none EXCEPT !.err = "not multipart"]
     ELSE IF Len(Split(ctype.value, <<"boundary=">>)) < 2
     THEN [none EXCEPT !.err = "IndexError"]
     ELSE LET boundary == Split(ctype.value, <<"boundary=">>)[2]
          IN ParseParts(none, Split(body, <<"--">> \o boundary))

\* The write step of _upload_file (lines 573-585).
StoreUpload(f, upload_path, filename, file_data) ==
  LET full == GetFullPath(upload_path)
  IN IF full.err # "ok" THEN Outcome(f, <<JsonError(full.err)>>, NoPath)
     ELSE LET made == PathMkdir(f, full.path, MkdirExistOk)
          IN IF made.err # "ok" THEN Outcome(made.fs, <<JsonError(made.err)>>, At(full.path))
             ELSE LET file_path == JoinPath([anchored |-> TRUE, parts |-> full.path],
                                            PathOf(filename))
                      at == Lookup(made.fs, file_path.parts)
                      wrote == OpenWrite(made.fs, file_path.parts, file_data)
                  IN Outcome(wrote.fs,
                             <<IF wrote.err = "ok" THEN JsonSuccess ELSE JsonError(wrote.err)>>,
                             IF at.err = "ok" THEN At(at.path) ELSE NoPath)

UploadFile(f, ctype, body) ==
  LET got == ParseUpload(ctype, body)
  IN IF got.err = "not multipart" THEN Outcome(f, <<Bare400>>, NoPath)
     ELSE IF got.err # "ok" THEN Uncaught(f)
     ELSE IF got.file_data # <<>> /\ got.filename # <<>>
     THEN StoreUpload(f, got.upload_path, got.filename, got.file_data)
     ELSE Outcome(f, <<Bare400>>, NoPath)

\* ---------------------------------------------------------- _create_folder
\* A JSON request body: text that json.loads rejects ("invalid"), a JSON
\* array, or a JSON object whose string members path and name may be absent.
\* data.get(key, '')
JsonGet(member) == IF member.present THEN member.value ELSE <<>>

CreateFolder(f, json) ==
  IF json.kind = "invalid" THEN Uncaught(f)
  ELSE IF json.kind # "object" THEN Outcome(f, <<JsonError("AttributeError")>>, NoPath)
  ELSE LET parent_path == JsonGet(json.path)
           folder_name == JsonGet(json.name)
       IN IF folder_name = <<>> THEN Outcome(f, <<JsonError("ValueError")>>, NoPath)
          ELSE LET parent == GetFullPath(parent_path)
               IN IF parent.err # "ok" THEN Outcome(f, <<JsonError(parent.err)>>, NoPath)
                  ELSE LET full_path == JoinPath([anchored |-> TRUE, parts |-> parent.path],
                                                 PathOf(folder_name))
                           made == PathMkdir(f, full_path.parts, MkdirExistOk)
                           at == Lookup(made.fs, full_path.parts)
                       IN Outcome(made.fs,
                                  <<IF made.err = "ok" THEN JsonSuccess ELSE JsonError(made.err)>>,
                                  IF at.err = "ok" THEN At(at.path) ELSE NoPath)

\* ------------------------------------------------------------ _delete_item
DeleteItem(f, json) ==
  IF json.kind = "invalid" THEN Uncaught(f)
  ELSE IF json.kind # "object" THEN Outcome(f, <<JsonError("AttributeError")>>, NoPath)
  ELSE LET full == GetFullPath(JsonGet(json.path))
       IN IF full.err # "ok" THEN Outcome(f, <<JsonError(full.err)>>, NoPath)
          ELSE LET del == DeleteAt(f, full.path)
               IN Outcome(del.fs,
                          <<IF del.err = "ok" THEN JsonSuccess ELSE JsonError(del.err)>>,
                          At(full.path))

\* ------------------------------------------------------ do_GET and do_POST
ServeIndex(f) == Outcome(f, <<Reply(200, "text/html", [k |-> "text", msg |-> "index"])>>, NoPath)
Route404(f) == Outcome(f, <<NotFound404("404 Not Found")>>, NoPath)

\* The elif chains of do_GET and do_POST: the one handler a request goes to.
DoGet(r) ==
  LET path == Unquote(r.url)
  IN IF path = <<SL>> \/ path = <<"/index.html">> THEN "_serve_index"
     ELSE IF path = <<"/api/list">> THEN "_list_files"
     ELSE IF StartsWith(path, <<"/api/download/">>) THEN "_download_file"
     ELSE IF StartsWith(path, <<"/api/view/">>) THEN "_view_file"
     ELSE "404"

DoPost(r) ==
  IF r.url = <<"/api/upload">> THEN "_upload_file"
  ELSE IF r.url = <<"/api/mkdir">> THEN "_create_folder"
  ELSE IF r.url = <<"/api/delete">> THEN "_delete_item"
  ELSE "404"

\* ------------------------------------------------------- the host at startup
Seg(t) == <<t>>
SIBLING == <<"rydrive_data", "2">>
SiblingDir == CWD \o <<SIBLING>>

\* main() has created DATA_DIR.  Next to it the host holds a directory whose
\* name extends DATA_DIR's, and /etc/passwd.
HostFS ==
  LET dirs == {<<>>, CWD, ROOT, SiblingDir, <<Seg("etc")>>}
      files == {Append(SiblingDir, Seg("secret")), Append(SiblingDir, Seg("locked")),
                <<Seg("etc"), Seg("passwd")>>}
  IN [p \in dirs \cup files |->
        IF p \in dirs THEN DirNode
        ELSE [kind |-> "file", data |-> <<"s">>,
              mode |-> IF Leaf(p) = Seg("locked") THEN "none" ELSE "rw"]]

\* ------------------------------------------------------- request alphabets
UP == <<DOT, DOT, SL>>
P_root == <<>>
P_docs == <<"docs">>
P_a == <<"a">>
P_docs_a == <<"docs", SL, "a">>
P_sibling == UP \o SIBLING
P_secret == P_sibling \o <<SL, "secret">>
P_locked == P_sibling \o <<SL, "locked">>
P_etc == UP \o UP \o <<"etc">>
P_passwd == P_etc \o <<SL, "passwd">>

Get(url) == [method |-> "GET", url |-> url, query |-> [has_path |-> FALSE, path |-> <<>>]]
GetList(path) == [method |-> "GET", url |-> <<"/api/list">>,
                  query |-> [has_path |-> TRUE, path |-> path]]

Member(v) == [present |-> TRUE, value |-> v]
Absent == [present |-> FALSE, value |-> <<>>]
JsonObject(path, name) == [kind |-> "object", path |-> path, name |-> name]
JsonInvalid == [kind |-> "invalid", path |-> Absent, name |-> Absent]
JsonArray == [kind |-> "array", path |-> Absent, name |-> Absent]
PostJson(url, json) == [method |-> "POST", url |-> <<url>>, json |-> json]

Multipart == Member(<<"multipart/form-data", "; ", "boundary=">> \o BOUNDARY)
Form(order, path, filename, payload, cut) ==
  [order |-> order, path |-> path, filename |-> filename, payload |-> payload, cut |-> cut]
PostUpload(ctype, form) ==
  [method |-> "POST", url |-> <<"/api/upload">>, ctype |-> ctype, form |-> form]

ListPaths == {P_root, P_docs, <<SL>> \o P_docs, P_sibling, P_etc}
FilePaths == {P_a, P_docs_a, P_secret, P_locked, P_passwd,
              <<"%2E", "%2E", "%2F">> \o SIBLING \o <<"%2F", "secret">>}

GetRequests ==
  {Get(<<SL>>), Get(<<"/nope">>), Get(<<"/api/list">>)}
    \cup {GetList(p) : p \in ListPaths}
    \cup {Get(<<"/api/download/">> \o p) : p \in FilePaths}
    \cup {Get(<<"/api/view/">> \o p) : p \in {P_a, P_locked}}

MkdirBodies ==
  {JsonObject(Member(P_root), Member(<<"docs">>)),
   JsonObject(Absent, Member(<<"docs">>)),
   JsonObject(Member(P_docs), Member(<<"a">>)),
   JsonObject(Member(P_root), Member(<<>>)),
   JsonObject(Member(P_root), Member(UP \o <<"x">>)),
   JsonObject(Member(P_root), Member(<<SL, "etc", SL, "x">>)),
   JsonObject(Member(P_etc), Member(<<"x">>)),
   JsonInvalid, JsonArray}

DeleteBodies ==
  {JsonObject(Member(p), Absent) : p \in {P_root, P_docs, P_a, P_docs_a, P_sibling, P_etc,
                                          <<"docs", SL, "x">>, <<"a", SL, "x">>}}
    \cup {JsonObject(Absent, Absent), JsonInvalid, JsonArray}

PX == <<"x">>
PXY == <<"x", "y">>

UploadForms ==
  {Form("file-path", P_root, <<"a">>, PX, 0),
   Form("file-path", P_docs, <<"a">>, PXY, 0),
   Form("path-file", P_docs, <<"a">>, PX, 0),
   Form("file-path", P_root, UP \o <<"evil">>, PX, 0),
   Form("file-path", P_docs, <<"x", SL, "a">>, PX, 0),
   Form("file-path", P_etc, <<"a">>, PX, 0),
   Form("file-path", <<"0xFF">>, <<"a">>, PX, 0),
   Form("path", P_root, <<>>, <<>>, 0)}
    \cup {Form("path-file", P_root, <<"a">>, PXY, c) : c \in 1..MaxCut}

UploadRequests ==
  {PostUpload(Multipart, form) : form \in UploadForms}
    \cup {PostUpload(ct, Form("file-path", P_root, <<"a">>, PX, 0)) :
            ct \in {Absent, Member(<<"multipart/form-data">>), Member(<<"application/json">>)}}

PostRequests ==
  UploadRequests
    \cup {PostJson("/api/mkdir", j) : j \in MkdirBodies}
    \cup {PostJson("/api/delete", j) : j \in DeleteBodies}
    \cup {PostJson("/api/nope", JsonInvalid)}

\* ------------------------------------------------------------ state machine
NoReq == [method |-> "none"]
NoForm == [order |-> "none"]
Unresolved == [k |-> "none"]

\* BaseHTTPRequestHandler.handle_one_request: do_GET or do_POST by method.
Dispatch(r) == IF r.method = "GET" THEN DoGet(r) ELSE DoPost(r)

IsDelete(r) == Dispatch(r) = "_delete_item"
IsMkdir(r) == Dispatch(r) = "_create_folder"
IsUpload(r) == Dispatch(r) = "_upload_file"
IsList(r) == Dispatch(r) = "_list_files"
IsDownload(r) == Dispatch(r) = "_download_file"
IsView(r) == Dispatch(r) = "_view_file"
IsIndex(r) == Dispatch(r) = "_serve_index"
IsApi(r) == Dispatch(r) \notin {"_serve_index", "404"}

\* History: the directories a delete request named (when it named an
\* existing directory through a path _get_full_path accepts) and that no
\* later request has created again.
DeletedDir(f, r) ==
  IF IsDelete(r) /\ r.json.kind = "object"
  THEN LET full == GetFullPath(JsonGet(r.json.path))
       IN IF full.err = "ok" /\ IsDir(f, full.path) THEN {full.path} ELSE {}
  ELSE {}

\* Request r is answered with what its handler leaves behind.
Handle(r, o) ==
  /\ fs' = o.fs
  /\ resp' = o.resp
  /\ acted' = o.acted
  /\ req' = r
  /\ gone' = {p \in gone \cup DeletedDir(fs, r) : p \notin (DOMAIN o.fs \ DOMAIN fs)}

\* The handler object lives for one request: serve_forever() answers a
\* request only after the previous one is finished.
Idle == req = NoReq /\ sent = NoForm

AllRequests == GetRequests \cup PostRequests
IndexRequests == {r \in AllRequests : IsIndex(r)}
ListRequests == {r \in AllRequests : IsList(r)}
DownloadRequests == {r \in AllRequests : IsDownload(r)}
ViewRequests == {r \in AllRequests : IsView(r)}
MkdirRequests == {r \in AllRequests : IsMkdir(r)}
DeleteRequests == {r \in AllRequests : IsDelete(r)}
UnknownRequests == {r \in AllRequests : Dispatch(r) = "404"}

ServeIndexReq ==
  Idle /\ \E r \in IndexRequests : Handle(r, ServeIndex(fs)) /\ UNCHANGED <<sent, resolved>>

ListReq ==
  Idle /\ \E r \in ListRequests : Handle(r, ListFiles(fs, r.query)) /\ UNCHANGED <<sent, resolved>>

DownloadReq ==
  Idle /\ \E r \in DownloadRequests :
    Handle(r, DownloadFile(fs, Tail(Unquote(r.url)))) /\ UNCHANGED <<sent, resolved>>

ViewReq ==
  Idle /\ \E r \in ViewRequests :
    Handle(r, ViewFile(fs, Tail(Unquote(r.url)))) /\ UNCHANGED <<sent, resolved>>

UploadReq ==
  Idle /\ \E r \in UploadRequests :
    Handle(r, UploadFile(fs, r.ctype, BodyOf(r.form))) /\ UNCHANGED <<sent, resolved>>

MkdirReq ==
  Idle /\ \E r \in MkdirRequests : Handle(r, CreateFolder(fs, r.json)) /\ UNCHANGED <<sent, resolved>>

DeleteReq ==
  Idle /\ \E r \in DeleteRequests : Handle(r, DeleteItem(fs, r.json)) /\ UNCHANGED <<sent, resolved>>

UnknownReq ==
  Idle /\ \E r \in UnknownRequests : Handle(r, Route404(fs)) /\ UNCHANGED <<sent, resolved>>

\* The request is over: the connection is closed and the next one is awaited.
Finish ==
  /\ req # NoReq /\ req.method # "RESOLVE" /\ sent = NoForm
  /\ req' = NoReq /\ resp' = <<>> /\ acted' = NoPath
  /\ UNCHANGED <<fs, gone, sent, resolved>>

Init ==
  /\ fs = HostFS
  /\ req = NoReq
  /\ resp = <<>>
  /\ acted = NoPath
  /\ gone = {}
  /\ sent = NoForm
  /\ resolved = Unresolved

Next ==
  \/ ServeIndexReq
  \/ ListReq
  \/ DownloadReq
  \/ ViewReq
  \/ UploadReq
  \/ MkdirReq
  \/ DeleteReq
  \/ UnknownReq
  \/ Finish

Spec == Init /\ [][Next]_vars

\* ------------------------------------------- _get_full_path on its own
Segs == {DOTDOT, <<DOT>>, <<>>, <<"docs">>, DATA_DIR, SIBLING}
SegLists == UNION {[1..n -> Segs] : n \in 0..MaxSegs}
Slashes(n) == [i \in 1..n |-> SL]
RelPaths == {Slashes(lead) \o JoinWith(segs, SL) : lead \in 0..MaxLead, segs \in SegLists}

InitResolve ==
  /\ fs = HostFS
  /\ req \in {[method |-> "RESOLVE", path |-> p] : p \in RelPaths}
  /\ resp = <<>>
  /\ acted = NoPath
  /\ gone = {}
  /\ sent = NoForm
  /\ resolved = Unresolved

ResolveStep ==
  /\ req.method = "RESOLVE"
  /\ resolved = Unresolved
  /\ resolved' = [k |-> "done", full |-> GetFullPath(req.path)]
  /\ UNCHANGED <<fs, req, resp, acted, gone, sent>>

NextResolve == ResolveStep

SpecResolve == InitResolve /\ [][NextResolve]_vars

\* ------------------------------------------------- upload, then download
PayloadChunks == {<<"x">>, <<CRLF>>, <<"--">>, NAME_PATH}
RECURSIVE Flatten(_)
Flatten(chunks) == IF chunks = <<>> THEN <<>> ELSE Head(chunks) \o Flatten(Tail(chunks))
Payloads == {Flatten(c) : c \in UNION {[1..n -> PayloadChunks] : n \in 0..MaxPayload}}

RoundTripForms ==
  {Form(order, path, filename, payload, 0) :
     order \in {"file-path", "path-file"}, path \in {P_root, P_docs},
     filename \in {<<"a">>, <<"path">>, <<"file">>}, payload \in Payloads}

\* The download URL of the file a form uploads: /api/download/<path>/<filename>
DownloadUrl(form) ==
  <<"/api/download/">> \o (IF form.path = <<>> THEN <<>> ELSE form.path \o <<SL>>)
    \o form.filename

RoundTripUpload ==
  /\ req = NoReq /\ sent = NoForm
  /\ \E form \in RoundTripForms :
       /\ Handle(PostUpload(Multipart, form), UploadFile(fs, Multipart, BodyOf(form)))
       /\ sent' = form
  /\ UNCHANGED resolved

RoundTripDownload ==
  /\ sent # NoForm /\ IsUpload(req)
  /\ Handle(Get(DownloadUrl(sent)), DownloadFile(fs, Tail(DownloadUrl(sent))))
  /\ UNCHANGED <<sent, resolved>>

NextRoundTrip == RoundTripUpload \/ RoundTripDownload

SpecRoundTrip == Init /\ [][NextRoundTrip]_vars

\* ------------------------------------------------------------- sanity
\* Every entry but "/" lies in an existing directory.
TreeOK == \A p \in DOMAIN fs : p = <<>> \/ IsDir(fs, Parent(p))

\* ------------------------------------------------ vocabulary of the claims
Answered == req # NoReq /\ req.method # "RESOLVE"

\* The relative path the client supplied with a request.
ClientPath(r) ==
  IF IsList(r) THEN QueryPath(r.query)
  ELSE IF IsDownload(r) \/ IsView(r) THEN Tail(Unquote(r.url))
  ELSE IF IsUpload(r) THEN r.form.path
  ELSE JsonGet(r.json.path)

\* The client's path really leads to the root or below it (by segments).
PathInsideRoot(r) == UnderRoot(FullPathOf(ClientPath(r)).parts)

WellFormedJson(r) == r.json.kind = "object"
ConformingUpload(r) ==
  r.ctype = Multipart /\ r.form.cut = 0 /\ r.form.order \in {"file-path", "path-file"}

IsErrorReply(rs) == Len(rs) = 1 /\ rs[1].status >= 400
IsJsonError(rs) ==
  Len(rs) = 1 /\ rs[1].status >= 400 /\ rs[1].ctype = "application/json"
    /\ rs[1].body.k = "error"

\* C1: whatever relative path is given, _get_full_path either raises or
\* returns the storage root or a path below it, compared by whole segments; it
\* never returns a path outside the root.
C1_ResolveStaysInRoot ==
  (resolved # Unresolved /\ resolved.full.err = "ok") => UnderRoot(resolved.full.path)

\* C2: in every request the location the file-system action is finally
\* performed on is the storage root or below it, also after mkdir joins the
\* client's name and upload joins the client's filename to the resolved
\* directory.  Stated for the requests whose own path lies inside the root, so
\* that only the joined name decides.
C2_ActionStaysInRoot ==
  (Answered /\ IsApi(req) /\ acted # NoPath
     /\ (IsDelete(req) \/ IsMkdir(req) => WellFormedJson(req))
     /\ PathInsideRoot(req))
    => UnderRoot(acted.path)

\* C3: an upload whose filename contains "/" or a ".." segment is rejected
\* with an error and writes nothing.
HasSeparatorOrDotDot(filename) ==
  Contains(filename, <<SL>>) \/ filename = DOTDOT

C3_TraversalFilenameStep ==
  (req = NoReq /\ IsUpload(req') /\ ConformingUpload(req')
     /\ HasSeparatorOrDotDot(req'.form.filename))
    => (IsErrorReply(resp') /\ fs' = fs)

C3_TraversalFilenameRejected == [][C3_TraversalFilenameStep]_vars

\* C4: a conforming upload of any payload under a valid filename, followed by
\* a download of <path>/<filename>, returns exactly the uploaded bytes.
C4_RoundTrip ==
  (sent # NoForm /\ IsDownload(req))
    => /\ Len(resp) = 1
       /\ resp[1].status = 200
       /\ resp[1].body.k = "bytes"
       /\ resp[1].body.data = sent.payload

\* C5: listing a directory of the storage tree returns 200 with one item for
\* each entry in it: the leaf name, folder or file, the byte count (0 for a
\* folder) and the root-relative path.
RootRelative(p) == JoinWith(SubSeq(p, Len(ROOT) + 1, Len(p)), SL)

ExpectedItem(f, p) ==
  [name |-> Leaf(p),
   type |-> IF IsDir(f, p) THEN "folder" ELSE "file",
   size |-> IF IsFile(f, p) THEN Len(f[p].data) ELSE 0,
   path |-> RootRelative(p)]

C5_ListShowsEntries ==
  (Answered /\ IsList(req) /\ PathInsideRoot(req))
    => \A p \in Children(fs, FullPathOf(ClientPath(req)).parts) :
         /\ Len(resp) = 1
         /\ resp[1].status = 200
         /\ resp[1].body.k = "items"
         /\ \E i \in 1..Len(resp[1].body.items) :
              resp[1].body.items[i] = ExpectedItem(fs, p)

\* C6: every request concludes with exactly one response (one status line).
C6_ExactlyOneResponse == Answered => Len(resp) = 1

\* C7: once a delete request has removed a directory, nothing is left at or
\* below it, and no list of its parent shows an item of that name, until a
\* later request creates it again.
ListedNames(rs) ==
  IF Len(rs) >= 1 /\ rs[1].body.k = "items"
  THEN {rs[1].body.items[i].name : i \in 1..Len(rs[1].body.items)} ELSE {}

C7_DeletedDirStaysGone ==
  \A p \in gone :
    /\ \A q \in DOMAIN fs : ~StartsWith(q, p)
    /\ (Answered /\ IsList(req) /\ FullPathOf(ClientPath(req)).parts = Parent(p))
         => Leaf(p) \notin ListedNames(resp)

C7_Witness ==
  \E p \in gone :
    /\ Answered /\ IsList(req) /\ FullPathOf(ClientPath(req)).parts = Parent(p)
    /\ Len(resp) = 1 /\ resp[1].status = 200

\* C8: a delete whose path lies inside the root and names nothing that exists
\* is answered with a JSON error and leaves the tree as it was.
C8_DeleteMissingStep ==
  (req = NoReq /\ IsDelete(req') /\ WellFormedJson(req') /\ PathInsideRoot(req')
     /\ ~Exists(fs, FullPathOf(ClientPath(req')).parts))
    => (IsJsonError(resp') /\ fs' = fs)

C8_DeleteMissingIsError == [][C8_DeleteMissingStep]_vars

C8_Witness ==
  /\ Answered /\ IsDelete(req) /\ WellFormedJson(req) /\ PathInsideRoot(req)
  /\ ~Exists(fs, FullPathOf(ClientPath(req)).parts)
  /\ IsJsonError(resp)

\* C9: when an mkdir request has succeeded, the same request once more
\* succeeds as well and leaves the tree exactly as the first call left it.
C9_MkdirTwice ==
  (Answered /\ IsMkdir(req) /\ resp = <<JsonSuccess>>)
    => /\ CreateFolder(fs, req.json).resp = <<JsonSuccess>>
       /\ CreateFolder(fs, req.json).fs = fs

C9_Witness ==
  /\ Answered /\ IsMkdir(req) /\ resp = <<JsonSuccess>>
  /\ IsDir(fs, ROOT \o <<<<"docs">>, <<"a">>>>)
  /\ req.json.name = Member(<<"a">>)

\* C10: an upload is answered 400 and writes nothing when the Content-Type
\* has no boundary parameter, when no part is a file field, or when the body
\* is truncated.
MalformedUpload(r) ==
  \/ (r.ctype.present /\ Contains(r.ctype.value, <<"multipart/form-data">>)
        /\ ~Contains(r.ctype.value, <<"boundary=">>))
  \/ (r.ctype = Multipart /\ r.form.order = "path" /\ r.form.cut = 0)
  \/ (r.ctype = Multipart /\ r.form.cut > 0)

C10_MalformedUploadStep ==
  (req = NoReq /\ IsUpload(req') /\ MalformedUpload(req'))
    => (resp' = <<Bare400>> /\ fs' = fs)

C10_MalformedUploadIs400 == [][C10_MalformedUploadStep]_vars

\* C11: a request whose client-supplied path leads outside the storage root
\* is answered with one 4xx client error (so nothing from outside the root is
\* returned and no in-root path is used in its place).
WellFormed(r) ==
  IF IsUpload(r) THEN ConformingUpload(r)
  ELSE IF IsMkdir(r) THEN WellFormedJson(r) /\ JsonGet(r.json.name) # <<>>
  ELSE IF IsDelete(r) THEN WellFormedJson(r)
  ELSE TRUE

C11_EscapeIsClientError ==
  (Answered /\ IsApi(req) /\ WellFormed(req) /\ ~PathInsideRoot(req))
    => /\ Len(resp) = 1
       /\ resp[1].status >= 400
       /\ resp[1].status <= 499

\* C12: upload parsing assigns each part to a field solely by the name="..."
\* attribute of its header: the name="file" part is the file part whatever its
\* filename or payload, and the name="path" part is the destination path.
C12_PartsAssignedByName ==
  (sent # NoForm /\ Answered /\ IsUpload(req))
    => LET got == ParseUpload(req.ctype, BodyOf(req.form))
       IN  /\ got.err = "ok"
           /\ got.has_file
           /\ got.filename = sent.filename
           /\ got.upload_path = sent.path

\* C13: in every state reached by API requests the storage root directory
\* itself still exists; no delete request removes it.
C13_RootExists == IsDir(fs, ROOT)

\* C14: a request answered with an error status (400, 404 or 500) leaves the
\* storage tree exactly as it was before the request.
ErrorStatus(rs) == \E i \in 1..Len(rs) : rs[i].status \in {400, 404, 500}

C14_ErrorLeavesTreeStep ==
  (req = NoReq /\ req' # NoReq /\ ErrorStatus(resp')) => fs' = fs

C14_ErrorLeavesTree == [][C14_ErrorLeavesTreeStep]_vars

====
